---- MODULE Spec2Model ----
(***************************************************************************)
(* Model of the foodgram backend: the membership views (Follow, Favorite,  *)
(* ShoppingList), the shopping-cart download and the recipe catalogue of    *)
(* backend/api/views.py and backend/recipes/models.py.                      *)
(*                                                                         *)
(* A table is a bag of rows: a function from the row's column values to    *)
(* the number of rows holding them (0 = no such row).  Row primary keys    *)
(* are not kept; a request that holds a fetched row remembers whether that *)
(* row is still stored (field obj of its record).                          *)
(***************************************************************************)
EXTENDS Integers, Sequences, FiniteSets, TLC

\* ---------------------------------------------------------------- bounds
\* Recipe ids are handed out by an auto-increment counter: 1..MaxRecipes.
MaxRecipes == 2
\* IngredientAmount.amount ranges over 1..MaxAmount.
MaxAmount == 2
\* At most MaxStored membership rows (Follow, Favorite, ShoppingList) are stored
\* at a time: no add request is sent to a store that holds that many.
MaxStored == 2

\* MinValueValidator(1) of IngredientAmount.amount
MinAmount == 1

Users == {"u1", "u2"}
\* a user id that names no user
NoUser == "nobody"
UserIds == Users \cup {NoUser}
RecipeIds == 1..MaxRecipes
IngredientIds == {1, 2}
Amounts == MinAmount..MaxAmount

\* The Ingredient fixtures the model starts from.  Ingredient.name is not
\* unique, so two records may share a name, with or without the same unit.
IngredientTables ==
  { [i \in IngredientIds |-> [name |-> t[i][1], measurement_unit |-> t[i][2]]] :
      t \in { <<<<"salt", "g">>, <<"salt", "g">>>>,
              <<<<"salt", "g">>, <<"salt", "kg">>>>,
              <<<<"salt", "g">>, <<"rice", "kg">>>> } }

Favorite == "Favorite"
ShoppingList == "ShoppingList"
Models == {Favorite, ShoppingList}

HTTP_201_CREATED == 201
HTTP_204_NO_CONTENT == 204
HTTP_400_BAD_REQUEST == 400
HTTP_404_NOT_FOUND == 404
HTTP_500_INTERNAL_SERVER_ERROR == 500
HTTP_200_OK == 200

VARIABLES
  ingredients,        \* table Ingredient: id -> [name, measurement_unit]
  recipes,            \* table Recipe: the ids of the stored recipes
  nextRecipeId,       \* the auto-increment counter of table Recipe
  ingredientAmounts,  \* table IngredientAmount: <<recipe, ingredient, amount>> -> rows
  favorites,          \* table Favorite: <<user, recipe>> -> rows
  purchases,          \* table ShoppingList: <<user, recipe>> -> rows
  follows,            \* table Follow: <<user, author>> -> rows
  last,               \* the request handled last and its response
  followsBefore,      \* table Follow as it was before the request handled last
  reqs                \* the requests in flight (interleaved handlers)

store == <<ingredients, recipes, nextRecipeId, ingredientAmounts,
           favorites, purchases, follows>>
vars == <<ingredients, recipes, nextRecipeId, ingredientAmounts,
          favorites, purchases, follows, last, followsBefore, reqs>>

\* ------------------------------------------------------------ ORM helpers
EmptyTable(keys) == [k \in keys |-> 0]

\* Mutant: the existence check is left out.
exists_never(table, u, t) == FALSE

\* Model.objects.filter(user=u, <target>=t).exists()
exists(table, u, t) == <<u, t>> \in DOMAIN table /\ table[<<u, t>>] > 0

\* Favorite, ShoppingList and Follow declare no uniqueness constraint over
\* (user, target): the database accepts a second row of a pair
UniqueTogether == FALSE

\* Model.objects.create(user=u, <target>=t): one more row
create(table, u, t) == [table EXCEPT ![<<u, t>>] = @ + 1]

\* Mutant: every row of the user is deleted (filter(user=u).delete()).
delete_all_of_user(table, u, t) ==
  [k \in DOMAIN table |-> IF k[1] = u THEN 0 ELSE table[k]]

\* Mutant: the call of delete() is left out.
delete_nothing(table, u, t) == table

\* obj.delete() of one fetched row that is still stored
delete(table, u, t) == [table EXCEPT ![<<u, t>>] = @ - 1]

\* on_delete=CASCADE of a foreign key to the row t (second column)
cascade(table, t) == [k \in DOMAIN table |-> IF k[2] = t THEN 0 ELSE table[k]]

\* acted_model.objects: the table of a membership model
objects(acted_model) == IF acted_model = Favorite THEN favorites ELSE purchases

\* Mutant: the row is written to ShoppingList whatever the acted model is.
save_to_shopping_list(acted_model, table) ==
  purchases' = table /\ favorites' = favorites

\* a write to acted_model's table; the other membership table is not touched
save(acted_model, table) ==
  IF acted_model = Favorite
    THEN favorites' = table /\ purchases' = purchases
    ELSE purchases' = table /\ favorites' = favorites

\* ---------------------------------------------------- the shopping report
RECURSIVE SumOver(_, _)
SumOver(f, S) ==
  IF S = {} THEN 0
  ELSE LET x == CHOOSE y \in S : TRUE IN f[x] + SumOver(f, S \ {x})

\* Mutant: the shopping lists of all users (ShoppingList.objects instead of
\* request.user.purchases).
purchases_recipe_id_any_user(purch, user) ==
  {r \in RecipeIds : \E u \in Users : purch[<<u, r>>] > 0}

\* request.user.purchases.values_list('recipe__id'): a lazy queryset, used as
\* the subquery of recipe__in (a set: a duplicated row adds nothing)
purchases_recipe_id(purch, user) == {r \in RecipeIds : purch[<<user, r>>] > 0}

\* IngredientInRecipe.objects.filter(recipe__in=recipe_id)
filter_recipe_in(amounts, recipe_id) ==
  [k \in DOMAIN amounts |-> IF k[1] \in recipe_id THEN amounts[k] ELSE 0]

\* Sum('amount') over the rows of one ingredient
Sum(rows, i) ==
  LET keys == {k \in DOMAIN rows : k[2] = i}
  IN  SumOver([k \in keys |-> k[3] * rows[k]], keys)

\* .values('ingredient', 'ingredient__name', 'ingredient__measurement_unit')
\* .annotate(amount=Sum('amount')): one group per ingredient that has a row
annotate(rows, ingr) ==
  { [ingredient |-> i,
     ingredient__name |-> ingr[i].name,
     ingredient__measurement_unit |-> ingr[i].measurement_unit,
     amount |-> Sum(rows, i)] :
    i \in {k[2] : k \in {x \in DOMAIN rows : rows[x] > 0}} }

\* Mutant: the recipe ids are read at once (list(...values_list(...))).
values_list_eager(purch, user) ==
  [lazy |-> FALSE, ids |-> {r \in RecipeIds : purch[<<user, r>>] > 0}]

\* line 145 builds a QuerySet and reads nothing: the rows are read when the
\* query that holds it as a subquery is evaluated
values_list(purch, user) == [lazy |-> TRUE, ids |-> {}]

\* the value of recipe__in when the query runs: a lazy queryset is a subquery
\* over the tables as they are then, a list is the ids it holds
recipe_in(recipe_id, purch, user) ==
  IF recipe_id.lazy THEN purchases_recipe_id(purch, user) ELSE recipe_id.ids

\* the query of lines 146-152, evaluated against one state of the tables
Evaluate(recipe_id, purch, amounts, ingr, user) ==
  annotate(filter_recipe_in(amounts, recipe_in(recipe_id, purch, user)), ingr)

\* the whole query of DownloadShoppingCart.get against one state of the tables
Query(purch, amounts, ingr, user) ==
  Evaluate(values_list(purch, user), purch, amounts, ingr, user)

\* the orders in which the database may return the groups
Orders(S) ==
  {s \in [1..Cardinality(S) -> S] : \A a, b \in DOMAIN s : s[a] = s[b] => a = b}

\* the loop over the groups: buying_list is a dict keyed by the NAME, kept
\* here as the sequence of its items in insertion order
RECURSIVE buying_list(_)
buying_list(groups) ==
  IF groups = <<>> THEN <<>>
  ELSE LET bl == buying_list(SubSeq(groups, 1, Len(groups) - 1))
           g == groups[Len(groups)]
           hit == {k \in DOMAIN bl : bl[k].name = g.ingredient__name}
       IN  IF hit = {}
             THEN Append(bl, [name |-> g.ingredient__name,
                              measurement_unit |-> g.ingredient__measurement_unit,
                              amount |-> g.amount])
             ELSE [k \in DOMAIN bl |->
                     IF k \in hit THEN [bl[k] EXCEPT !.amount = @ + g.amount]
                     ELSE bl[k]]

\* f'{item} - {amount} {measurement_unit} \n'
Line(name, amount, measurement_unit) ==
  name \o " - " \o ToString(amount) \o " " \o measurement_unit \o " \n"

Footer == "FoodGram | kirilyuk.surgut@yandex.ru | 2022"

\* the list handed to HttpResponse
wishlist(groups) ==
  LET bl == buying_list(groups)
  IN  [k \in DOMAIN bl |-> Line(bl[k].name, bl[k].amount, bl[k].measurement_unit)]
      \o <<"\n", Footer>>

\* every report the download may return for user from the given tables
Reports(purch, amounts, ingr, user) ==
  {wishlist(o) : o \in Orders(Query(purch, amounts, ingr, user))}

\* ------------------------------------------------------------- responses
NoRequest ==
  [op |-> "none", model |-> "none", user |-> NoUser, recipe_id |-> 0,
   user_id |-> NoUser, status |-> 0, body |-> <<>>]

Response(op, model, user, recipe_id, user_id, status, body) ==
  [op |-> op, model |-> model, user |-> user, recipe_id |-> recipe_id,
   user_id |-> user_id, status |-> status, body |-> body]

\* the number of rows of a table
Count(table) == SumOver(table, DOMAIN table)

\* the membership rows stored
Stored == Count(favorites) + Count(purchases) + Count(follows)

\* ------------------------------------------------------------------ Init
\* the fixtures in which no two ingredients share a name
PlainTables == {t \in IngredientTables : t[1].name # t[2].name}

\* an empty store over one of the given Ingredient fixtures
InitStore(tables) ==
  /\ ingredients \in tables
  /\ recipes = {}
  /\ nextRecipeId = 1
  /\ ingredientAmounts = EmptyTable(RecipeIds \X IngredientIds \X Amounts)
  /\ favorites = EmptyTable(Users \X RecipeIds)
  /\ purchases = EmptyTable(Users \X RecipeIds)
  /\ follows = EmptyTable(Users \X Users)
  /\ last = NoRequest
  /\ followsBefore = follows

\* no request is in flight: every handler runs from its first line to its last
Init == InitStore(PlainTables) /\ reqs = <<>>

\* the same, over every Ingredient fixture
InitCart == InitStore(IngredientTables) /\ reqs = <<>>

catalogue == <<ingredients, recipes, nextRecipeId, ingredientAmounts>>

\* --------------------------------------------------- requests in flight
\* the worker processes that handle requests at the same time
Slots == {"w1", "w2"}

Idle ==
  [pc |-> "idle", op |-> "none", model |-> "none", user |-> NoUser,
   recipe_id |-> 0, obj |-> FALSE, qs |-> [lazy |-> TRUE, ids |-> {}],
   seen |-> {}, raced |-> FALSE, status |-> 0, body |-> <<>>]

Running(r) == r.pc \notin {"idle", "done"}

\* History: every download in flight records the result its query has in the
\* state a step leads to: purch, amounts and ingr are the tables of that state
Observe(rs, purch, amounts, ingr) ==
  [s \in DOMAIN rs |->
     IF rs[s].op = "get" /\ Running(rs[s])
       THEN [rs[s] EXCEPT !.seen = @ \cup {Query(purch, amounts, ingr, rs[s].user)}]
       ELSE rs[s]]

\* table ShoppingList after a write of table to acted_model's table
purchases_after(acted_model, table) ==
  IF acted_model = ShoppingList THEN table ELSE purchases

\* the rows fetched by requests in flight that a delete removes from under them
Stale(rs, acted_model, user, recipe_id) ==
  [s \in DOMAIN rs |->
     IF /\ rs[s].op = "delete" /\ rs[s].pc = "delete"
        /\ rs[s].model \in acted_model /\ rs[s].user \in user
        /\ rs[s].recipe_id = recipe_id
       THEN [rs[s] EXCEPT !.obj = FALSE]
       ELSE rs[s]]

\* ------------------------------------- requests handled one after another
\* FollowViewSet.post
FollowViewSet_post(user, user_id) ==
  /\ IF user_id \in Users /\ ~exists(follows, user, user_id)
       THEN Stored < MaxStored ELSE TRUE
  /\ followsBefore' = follows
  /\ UNCHANGED <<catalogue, favorites, purchases, reqs>>
  /\ IF user_id \notin Users
       THEN /\ last' = Response("post", "Follow", user, 0, user_id,
                                HTTP_404_NOT_FOUND, <<>>)
            /\ UNCHANGED follows
       ELSE IF exists(follows, user, user_id)
         THEN /\ last' = Response("post", "Follow", user, 0, user_id,
                                  HTTP_400_BAD_REQUEST, <<>>)
              /\ UNCHANGED follows
         ELSE /\ follows' = create(follows, user, user_id)
              /\ last' = Response("post", "Follow", user, 0, user_id,
                                  HTTP_201_CREATED, <<>>)

\* FollowViewSet.delete
FollowViewSet_delete(user, user_id) ==
  /\ followsBefore' = follows
  /\ UNCHANGED <<catalogue, favorites, purchases, reqs>>
  /\ IF user_id \notin Users \/ ~exists(follows, user, user_id)
       THEN /\ last' = Response("delete", "Follow", user, 0, user_id,
                                HTTP_404_NOT_FOUND, <<>>)
            /\ UNCHANGED follows
       ELSE IF follows[<<user, user_id>>] > 1
         THEN \* get() raises MultipleObjectsReturned
              /\ last' = Response("delete", "Follow", user, 0, user_id,
                                  HTTP_500_INTERNAL_SERVER_ERROR, <<>>)
              /\ UNCHANGED follows
         ELSE /\ follows' = delete(follows, user, user_id)
              /\ last' = Response("delete", "Follow", user, 0, user_id,
                                  HTTP_204_NO_CONTENT, <<>>)

\* get_post, behind FavouriteViewSet.post and ShoppingListViewSet.post
get_post(user, recipe_id, acted_model) ==
  /\ IF recipe_id \in recipes /\ ~exists(objects(acted_model), user, recipe_id)
       THEN Stored < MaxStored ELSE TRUE
  /\ followsBefore' = follows
  /\ UNCHANGED <<catalogue, follows, reqs>>
  /\ IF recipe_id \notin recipes
       THEN /\ last' = Response("post", acted_model, user, recipe_id, NoUser,
                                HTTP_404_NOT_FOUND, <<>>)
            /\ UNCHANGED <<favorites, purchases>>
       ELSE IF exists(objects(acted_model), user, recipe_id)
         THEN /\ last' = Response("post", acted_model, user, recipe_id, NoUser,
                                  HTTP_400_BAD_REQUEST, <<>>)
              /\ UNCHANGED <<favorites, purchases>>
         ELSE /\ save(acted_model, create(objects(acted_model), user, recipe_id))
              /\ last' = Response("post", acted_model, user, recipe_id, NoUser,
                                  HTTP_201_CREATED, <<>>)

\* get_delete, behind FavouriteViewSet.delete and ShoppingListViewSet.delete.
\* A model instance is always truthy: the 400 branch of line 111 is dead.
get_delete(user, recipe_id, acted_model) ==
  /\ followsBefore' = follows
  /\ UNCHANGED <<catalogue, follows, reqs>>
  /\ IF recipe_id \notin recipes \/ ~exists(objects(acted_model), user, recipe_id)
       THEN /\ last' = Response("delete", acted_model, user, recipe_id, NoUser,
                                HTTP_404_NOT_FOUND, <<>>)
            /\ UNCHANGED <<favorites, purchases>>
       ELSE IF objects(acted_model)[<<user, recipe_id>>] > 1
         THEN \* get() raises MultipleObjectsReturned
              /\ last' = Response("delete", acted_model, user, recipe_id, NoUser,
                                  HTTP_500_INTERNAL_SERVER_ERROR, <<>>)
              /\ UNCHANGED <<favorites, purchases>>
         ELSE /\ save(acted_model, delete(objects(acted_model), user, recipe_id))
              /\ last' = Response("delete", acted_model, user, recipe_id, NoUser,
                                  HTTP_204_NO_CONTENT, <<>>)

\* DownloadShoppingCart.get
DownloadShoppingCart_get(user) ==
  /\ followsBefore' = follows
  /\ UNCHANGED <<store, reqs>>
  /\ \E groups \in Orders(Query(purchases, ingredientAmounts, ingredients, user)) :
       last' = Response("get", "DownloadShoppingCart", user, 0, NoUser,
                        HTTP_200_OK, wishlist(groups))

\* the IngredientAmount rows a new recipe is created with: one row for each
\* ingredient the request lists (items: ingredient -> amount)
AddItems(amounts, recipe, items) ==
  [k \in DOMAIN amounts |->
     IF k[1] = recipe /\ k[2] \in DOMAIN items /\ items[k[2]] = k[3]
       THEN amounts[k] + 1 ELSE amounts[k]]

\* RecipesViewSet.create: a new recipe with its IngredientAmount rows
RecipesViewSet_create(items) ==
  /\ nextRecipeId <= MaxRecipes
  /\ DOMAIN items \subseteq DOMAIN ingredients
  /\ recipes' = recipes \cup {nextRecipeId}
  /\ nextRecipeId' = nextRecipeId + 1
  /\ ingredientAmounts' = AddItems(ingredientAmounts, nextRecipeId, items)
  /\ followsBefore' = follows
  /\ last' = Response("post", "Recipe", NoUser, nextRecipeId, NoUser,
                      HTTP_201_CREATED, <<>>)
  /\ UNCHANGED <<ingredients, favorites, purchases, follows>>
  /\ reqs' = Observe(reqs, purchases,
                     AddItems(ingredientAmounts, nextRecipeId, items), ingredients)

\* Mutant: on_delete=DO_NOTHING, the rows stay.
cascade_recipe_nothing(amounts, recipe_id) == amounts

\* the rows of IngredientAmount left when its recipe is deleted
\* (recipe = ForeignKey(Recipe, on_delete=CASCADE))
cascade_recipe(amounts, recipe_id) ==
  [k \in DOMAIN amounts |-> IF k[1] = recipe_id THEN 0 ELSE amounts[k]]

\* the rows of IngredientAmount left when an ingredient is deleted
\* (ingredient = ForeignKey(Ingredient, on_delete=CASCADE))
cascade_ingredient(amounts, i) ==
  [k \in DOMAIN amounts |-> IF k[2] = i THEN 0 ELSE amounts[k]]

\* RecipesViewSet.destroy
RecipesViewSet_destroy(recipe_id) ==
  /\ followsBefore' = follows
  /\ UNCHANGED <<ingredients, nextRecipeId, follows>>
  /\ IF recipe_id \notin recipes
       THEN /\ last' = Response("delete", "Recipe", NoUser, recipe_id, NoUser,
                                HTTP_404_NOT_FOUND, <<>>)
            /\ UNCHANGED <<recipes, ingredientAmounts, favorites, purchases, reqs>>
       ELSE /\ reqs' = Observe(Stale(reqs, Models, Users, recipe_id),
                               cascade(purchases, recipe_id),
                               cascade_recipe(ingredientAmounts, recipe_id),
                               ingredients)
            /\ recipes' = recipes \ {recipe_id}
            /\ ingredientAmounts' = cascade_recipe(ingredientAmounts, recipe_id)
            /\ favorites' = cascade(favorites, recipe_id)
            /\ purchases' = cascade(purchases, recipe_id)
            /\ last' = Response("delete", "Recipe", NoUser, recipe_id, NoUser,
                                HTTP_204_NO_CONTENT, <<>>)

\* Ingredient.delete(): an ingredient record is removed
Ingredient_delete(i) ==
  /\ i \in DOMAIN ingredients
  /\ ingredients' = [j \in DOMAIN ingredients \ {i} |-> ingredients[j]]
  /\ ingredientAmounts' = cascade_ingredient(ingredientAmounts, i)
  /\ followsBefore' = follows
  /\ last' = Response("delete", "Ingredient", NoUser, 0, NoUser,
                      HTTP_204_NO_CONTENT, <<>>)
  /\ UNCHANGED <<recipes, nextRecipeId, favorites, purchases, follows>>
  /\ reqs' = Observe(reqs, purchases, cascade_ingredient(ingredientAmounts, i),
                     [j \in DOMAIN ingredients \ {i} |-> ingredients[j]])

\* the ingredient lists of the create requests
Items == UNION {[S -> Amounts] : S \in SUBSET IngredientIds}

\* the recipes of the membership requests list every ingredient, the amounts
\* differing from ingredient to ingredient
FixedItems == [i \in IngredientIds |-> MinAmount + ((i - 1) % MaxAmount)]

\* the membership requests (Follow, Favorite, ShoppingList) and the download,
\* one at a time, over a catalogue in which recipes are created and deleted
Next ==
  \/ \E user \in Users, user_id \in UserIds : FollowViewSet_post(user, user_id)
  \/ \E user \in Users, user_id \in UserIds : FollowViewSet_delete(user, user_id)
  \/ \E user \in Users, recipe_id \in RecipeIds, acted_model \in Models :
       get_post(user, recipe_id, acted_model)
  \/ \E user \in Users, recipe_id \in RecipeIds, acted_model \in Models :
       get_delete(user, recipe_id, acted_model)
  \/ \E user \in Users : DownloadShoppingCart_get(user)
  \/ RecipesViewSet_create(FixedItems)
  \/ \E recipe_id \in RecipeIds : RecipesViewSet_destroy(recipe_id)

Spec == Init /\ [][Next]_vars

\* the shopping cart: the catalogue, the shopping list and the download
NextCart ==
  \/ \E user \in Users, recipe_id \in RecipeIds :
       get_post(user, recipe_id, ShoppingList)
  \/ \E user \in Users, recipe_id \in RecipeIds :
       get_delete(user, recipe_id, ShoppingList)
  \/ \E user \in Users : DownloadShoppingCart_get(user)
  \/ \E items \in Items : RecipesViewSet_create(items)
  \/ \E recipe_id \in RecipeIds : RecipesViewSet_destroy(recipe_id)

SpecCart == InitCart /\ [][NextCart]_vars

\* the catalogue: recipes and ingredients are created and deleted
NextCatalogue ==
  \/ \E items \in Items : RecipesViewSet_create(items)
  \/ \E recipe_id \in RecipeIds : RecipesViewSet_destroy(recipe_id)
  \/ \E i \in IngredientIds : Ingredient_delete(i)

SpecCatalogue == InitCart /\ [][NextCatalogue]_vars

\* ------------------------------ requests handled at the same time, by steps
\* Each step is one database statement of a handler; the steps of the requests
\* in flight interleave.
\* The catalogue the concurrent requests start from: every recipe has been
\* created (RecipesViewSet.create) with one row of ingredient 1, the amounts
\* differing from recipe to recipe.
ConcAmount(r) == MinAmount + ((r - 1) % MaxAmount)

InitConc ==
  /\ ingredients \in PlainTables
  /\ recipes = RecipeIds
  /\ nextRecipeId = MaxRecipes + 1
  /\ ingredientAmounts =
       [k \in RecipeIds \X IngredientIds \X Amounts |->
          IF k[2] = 1 /\ k[3] = ConcAmount(k[1]) THEN 1 ELSE 0]
  /\ favorites = EmptyTable(Users \X RecipeIds)
  /\ purchases = EmptyTable(Users \X RecipeIds)
  /\ follows = EmptyTable(Users \X Users)
  /\ last = NoRequest
  /\ followsBefore = follows
  /\ reqs = [s \in Slots |-> Idle]

history == <<last, followsBefore>>

\* the add requests in flight that may still create a row
Creating == Cardinality({s \in Slots : reqs[s].op = "post" /\ Running(reqs[s])})

\* get_post, line 95: the request arrives and looks the recipe up
post_get_recipe(s, user, recipe_id, acted_model) ==
  /\ ~Running(reqs[s])
  /\ IF recipe_id \in recipes THEN Stored + Creating < MaxStored ELSE TRUE
  /\ reqs' = [reqs EXCEPT ![s] =
       [Idle EXCEPT !.op = "post", !.model = acted_model, !.user = user,
                    !.recipe_id = recipe_id,
                    !.pc = IF recipe_id \in recipes THEN "exists" ELSE "done",
                    !.status = IF recipe_id \in recipes THEN 0
                               ELSE HTTP_404_NOT_FOUND]]
  /\ UNCHANGED <<store, history>>

\* get_post, line 96: the existence check
post_exists(s) ==
  /\ reqs[s].op = "post" /\ reqs[s].pc = "exists"
  /\ reqs' = [reqs EXCEPT ![s] =
       IF exists(objects(reqs[s].model), reqs[s].user, reqs[s].recipe_id)
         THEN [@ EXCEPT !.pc = "done", !.status = HTTP_400_BAD_REQUEST]
         ELSE [@ EXCEPT !.pc = "create"]]
  /\ UNCHANGED <<store, history>>

\* get_post, lines 100-104: the row is created.  The foreign key refuses a
\* recipe that has been deleted meanwhile, a uniqueness constraint a row that
\* has been created meanwhile (IntegrityError).
post_create(s) ==
  /\ reqs[s].op = "post" /\ reqs[s].pc = "create"
  /\ UNCHANGED <<catalogue, follows, history>>
  /\ IF \/ reqs[s].recipe_id \notin recipes
        \/ /\ UniqueTogether
           /\ exists(objects(reqs[s].model), reqs[s].user, reqs[s].recipe_id)
       THEN /\ UNCHANGED <<favorites, purchases>>
            /\ reqs' = [reqs EXCEPT ![s].pc = "done",
                                    ![s].status = HTTP_500_INTERNAL_SERVER_ERROR]
       ELSE LET table == create(objects(reqs[s].model), reqs[s].user,
                                reqs[s].recipe_id)
            IN  /\ save(reqs[s].model, table)
                /\ reqs' = Observe([reqs EXCEPT ![s].pc = "done",
                                                ![s].status = HTTP_201_CREATED],
                                   purchases_after(reqs[s].model, table),
                                   ingredientAmounts, ingredients)

\* get_delete, line 109: the request arrives and looks the recipe up
delete_get_recipe(s, user, recipe_id, acted_model) ==
  /\ ~Running(reqs[s])
  /\ reqs' = [reqs EXCEPT ![s] =
       [Idle EXCEPT !.op = "delete", !.model = acted_model, !.user = user,
                    !.recipe_id = recipe_id,
                    !.pc = IF recipe_id \in recipes THEN "get_obj" ELSE "done",
                    !.status = IF recipe_id \in recipes THEN 0
                               ELSE HTTP_404_NOT_FOUND]]
  /\ UNCHANGED <<store, history>>

\* get_delete, line 110: the row is fetched
delete_get_obj(s) ==
  /\ reqs[s].op = "delete" /\ reqs[s].pc = "get_obj"
  /\ LET n == objects(reqs[s].model)[<<reqs[s].user, reqs[s].recipe_id>>]
     IN  reqs' = [reqs EXCEPT ![s] =
           IF n = 0 THEN [@ EXCEPT !.pc = "done", !.status = HTTP_404_NOT_FOUND]
           ELSE IF n > 1
             THEN [@ EXCEPT !.pc = "done",
                            !.status = HTTP_500_INTERNAL_SERVER_ERROR]
             ELSE [@ EXCEPT !.pc = "delete", !.obj = TRUE]]
  /\ UNCHANGED <<store, history>>

\* get_delete, lines 115-117: the fetched row is deleted, if it is still there
delete_delete(s) ==
  /\ reqs[s].op = "delete" /\ reqs[s].pc = "delete"
  /\ UNCHANGED <<catalogue, follows, history>>
  /\ IF reqs[s].obj
       THEN LET table == delete(objects(reqs[s].model), reqs[s].user,
                                reqs[s].recipe_id)
            IN  /\ save(reqs[s].model, table)
                /\ reqs' = Observe(
                     [Stale(reqs, {reqs[s].model}, {reqs[s].user}, reqs[s].recipe_id)
                        EXCEPT ![s].pc = "done", ![s].obj = FALSE,
                               ![s].status = HTTP_204_NO_CONTENT],
                     purchases_after(reqs[s].model, table),
                     ingredientAmounts, ingredients)
       ELSE /\ UNCHANGED <<favorites, purchases>>
            /\ reqs' = [reqs EXCEPT ![s].pc = "done",
                                    ![s].status = HTTP_204_NO_CONTENT]

\* DownloadShoppingCart.get, lines 144-152: the request arrives and the
\* querysets are built
get_build(s, user) ==
  /\ ~Running(reqs[s])
  /\ reqs' = [reqs EXCEPT ![s] =
       [Idle EXCEPT !.op = "get", !.model = "DownloadShoppingCart",
                    !.user = user, !.pc = "print",
                    !.qs = values_list(purchases, user),
                    !.seen = {Query(purchases, ingredientAmounts, ingredients, user)}]]
  /\ UNCHANGED <<store, history>>

\* DownloadShoppingCart.get, line 153: print(ingredients) runs the query once
\* and writes the result to the log
get_print(s) ==
  /\ reqs[s].op = "get" /\ reqs[s].pc = "print"
  /\ reqs' = [reqs EXCEPT ![s].pc = "iterate"]
  /\ UNCHANGED <<store, history>>

\* DownloadShoppingCart.get, lines 154-174: the loop runs the query and the
\* report is built from its rows
get_iterate(s) ==
  /\ reqs[s].op = "get" /\ reqs[s].pc = "iterate"
  /\ \E groups \in Orders(Evaluate(reqs[s].qs, purchases, ingredientAmounts,
                                   ingredients, reqs[s].user)) :
       reqs' = [reqs EXCEPT ![s].pc = "done", ![s].status = HTTP_200_OK,
                            ![s].body = wishlist(groups),
                            ![s].qs = Idle.qs, ![s].seen = {},
                            ![s].raced = Cardinality(reqs[s].seen) > 1]
  /\ UNCHANGED <<store, history>>

\* the requests sent at the same time are those of one user
ConcUsers == {"u1"}

\* add and remove requests for favorites and shopping-list entries, and recipe
\* deletions, at the same time
NextRace ==
  \/ \E s \in Slots, user \in ConcUsers, recipe_id \in RecipeIds,
        acted_model \in Models :
       post_get_recipe(s, user, recipe_id, acted_model)
  \/ \E s \in Slots : post_exists(s)
  \/ \E s \in Slots : post_create(s)
  \/ \E s \in Slots, user \in ConcUsers, recipe_id \in RecipeIds,
        acted_model \in Models :
       delete_get_recipe(s, user, recipe_id, acted_model)
  \/ \E s \in Slots : delete_get_obj(s)
  \/ \E s \in Slots : delete_delete(s)
  \/ \E recipe_id \in RecipeIds : RecipesViewSet_destroy(recipe_id)

SpecRace == InitConc /\ [][NextRace]_vars

\* downloads at the same time as add and remove requests for the shopping
\* list and recipe deletions
NextConc ==
  \/ \E s \in Slots, user \in ConcUsers, recipe_id \in RecipeIds :
       post_get_recipe(s, user, recipe_id, ShoppingList)
  \/ \E s \in Slots : post_exists(s)
  \/ \E s \in Slots : post_create(s)
  \/ \E s \in Slots, user \in ConcUsers, recipe_id \in RecipeIds :
       delete_get_recipe(s, user, recipe_id, ShoppingList)
  \/ \E s \in Slots : delete_get_obj(s)
  \/ \E s \in Slots : delete_delete(s)
  \/ \E s \in Slots, user \in ConcUsers : get_build(s, user)
  \/ \E s \in Slots : get_print(s)
  \/ \E s \in Slots : get_iterate(s)
  \/ \E recipe_id \in RecipeIds : RecipesViewSet_destroy(recipe_id)

SpecConc == InitConc /\ [][NextConc]_vars

\* ================================================================ claims
Memberships == {"Follow", Favorite, ShoppingList}

\* the rows of the request l's model for its (user, target) pair, in the
\* given tables
RowsOf(l, fav, pur, fol) ==
  IF l.model = "Follow"
    THEN (IF <<l.user, l.user_id>> \in DOMAIN fol THEN fol[<<l.user, l.user_id>>] ELSE 0)
    ELSE IF l.model = Favorite THEN fav[<<l.user, l.recipe_id>>]
    ELSE pur[<<l.user, l.recipe_id>>]

TargetExists(l) ==
  IF l.model = "Follow" THEN l.user_id \in Users ELSE l.recipe_id \in recipes

SameRequest(l, m) ==
  /\ l.op = m.op /\ l.model = m.model /\ l.user = m.user
  /\ l.recipe_id = m.recipe_id /\ l.user_id = m.user_id

\* the table with the row (or rows) of one key left out of the comparison
Except(table, key) == [k \in DOMAIN table \ {key} |-> table[k]]

\* C1: in every reachable state, under any interleaving of add and remove
\* requests, the store holds at most one ShoppingList row and at most one
\* Favorite row for each (user, recipe) pair.
C1_AtMostOneRowPerPair ==
  \A k \in Users \X RecipeIds : purchases[k] <= 1 /\ favorites[k] <= 1

\* C2: for every membership kind, an add request for an existing target with
\* no row returns 201 and creates the row; a second add request for the same
\* target right after it returns 400 and creates nothing, so exactly one row
\* is stored.
C2_AddTwice ==
  [][ (last'.op = "post" /\ last'.model \in Memberships) =>
        /\ (TargetExists(last') /\ RowsOf(last', favorites, purchases, follows) = 0)
             => /\ last'.status = HTTP_201_CREATED
                /\ RowsOf(last', favorites', purchases', follows') = 1
        /\ (last.status = HTTP_201_CREATED /\ SameRequest(last, last'))
             => /\ last'.status = HTTP_400_BAD_REQUEST
                /\ <<favorites', purchases', follows'>> = <<favorites, purchases, follows>>
                /\ RowsOf(last', favorites', purchases', follows') = 1 ]_vars

\* C2 witness: an add request has just been refused with 400 and its row is
\* stored once.
C2_Witness ==
  /\ last.op = "post" /\ last.model \in Memberships
  /\ last.status = HTTP_400_BAD_REQUEST
  /\ RowsOf(last, favorites, purchases, follows) = 1

\* C3: for every membership kind, a remove request returns 404 when the target
\* does not exist or no row of the pair is stored, and then every table is left
\* as it was; it never returns 400 and never changes a row of another user or
\* another target.
C3_RemoveMissing ==
  [][ (last'.op = "delete" /\ last'.model \in Memberships) =>
        /\ last'.status # HTTP_400_BAD_REQUEST
        /\ (~TargetExists(last') \/ RowsOf(last', favorites, purchases, follows) = 0)
             => last'.status = HTTP_404_NOT_FOUND /\ store' = store
        /\ catalogue' = catalogue
        /\ last'.model # "Follow" => follows' = follows
        /\ last'.model # Favorite => favorites' = favorites
        /\ last'.model # ShoppingList => purchases' = purchases
        /\ last'.model = "Follow" =>
             Except(follows', <<last'.user, last'.user_id>>)
               = Except(follows, <<last'.user, last'.user_id>>)
        /\ last'.model = Favorite =>
             Except(favorites', <<last'.user, last'.recipe_id>>)
               = Except(favorites, <<last'.user, last'.recipe_id>>)
        /\ last'.model = ShoppingList =>
             Except(purchases', <<last'.user, last'.recipe_id>>)
               = Except(purchases, <<last'.user, last'.recipe_id>>) ]_vars

\* C3 witness: a remove request has just been refused with 404 by a store that
\* holds membership rows.
C3_Witness ==
  /\ last.op = "delete" /\ last.model \in Memberships
  /\ last.status = HTTP_404_NOT_FOUND
  /\ Stored > 0

\* C4: a follow request answered 201 and then an unfollow request of the same
\* user for the same author answered 204 leave table Follow as it was before
\* the follow request.
C4_FollowUnfollow ==
  [][ ( /\ last.op = "post" /\ last.model = "Follow"
        /\ last.status = HTTP_201_CREATED
        /\ last'.op = "delete" /\ last'.model = "Follow"
        /\ last'.status = HTTP_204_NO_CONTENT
        /\ last'.user = last.user /\ last'.user_id = last.user_id )
      => follows' = followsBefore ]_vars

\* C4 witness: an unfollow request has just been answered 204 and another
\* follow row is stored.
C4_Witness ==
  /\ last.op = "delete" /\ last.model = "Follow"
  /\ last.status = HTTP_204_NO_CONTENT
  /\ Count(follows) > 0

\* the ingredients that have a row in a recipe of the user's shopping list
Listed(user) ==
  {g.ingredient : g \in Query(purchases, ingredientAmounts, ingredients, user)}

\* the sum of the quantities of ingredient i over the recipes of the user's
\* shopping list
Quantity(user, i) ==
  LET keys == {k \in DOMAIN ingredientAmounts :
                 k[2] = i /\ purchases[<<user, k[1]>>] > 0}
  IN  SumOver([k \in keys |-> k[3] * ingredientAmounts[k]], keys)

\* the line of the report for the ingredient record i
LineFor(user, i) ==
  Line(ingredients[i].name, Quantity(user, i), ingredients[i].measurement_unit)

\* C5: the report of a download holds, for every ingredient I of the recipes in
\* the user's shopping list, exactly one line for I, and its amount is the sum
\* of the quantities of I over those recipes (and over no other recipe).
C5_SummedLine ==
  last.op = "get" =>
    \A i \in Listed(last.user) :
      Cardinality({k \in DOMAIN last.body :
                     last.body[k] = LineFor(last.user, i)}) = 1

\* C6: the report holds one line for each ingredient record of the recipes in
\* the user's shopping list, with that record's own summed amount and unit,
\* also when two records share a name.
C6_LinePerRecord ==
  last.op = "get" =>
    /\ Len(last.body) = Cardinality(Listed(last.user)) + 2
    /\ \A i \in Listed(last.user) :
         \E k \in DOMAIN last.body : last.body[k] = LineFor(last.user, i)

\* C7: the report of a user whose shopping list is empty is the blank line
\* followed by the footer line, whatever else the store holds.
C7_EmptyList ==
  (last.op = "get" /\ \A r \in RecipeIds : purchases[<<last.user, r>>] = 0)
    => last.body = <<"\n", Footer>>

\* C7 witness: a download for a user with an empty shopping list, while
\* another user's shopping list and the user's own favorites hold a recipe.
C7_Witness ==
  /\ last.op = "get"
  /\ \A r \in RecipeIds : purchases[<<last.user, r>>] = 0
  /\ \E r \in RecipeIds : favorites[<<last.user, r>>] > 0
  /\ \E u \in Users, r \in RecipeIds : purchases[<<u, r>>] > 0
  /\ Count(ingredientAmounts) > 0

\* C8: the report a download returns is the report of one state of the tables
\* that existed between the start and the end of its request.
C8_OneState ==
  [][ \A s \in Slots :
        (reqs[s].op = "get" /\ reqs[s].pc = "iterate" /\ reqs'[s].pc = "done")
          => \E q \in reqs[s].seen :
               \E groups \in Orders(q) : reqs'[s].body = wishlist(groups) ]_vars

\* C8 witness: a download has returned a report after the tables changed
\* during its request.
C8_Witness ==
  \E s \in Slots :
    /\ reqs[s].op = "get" /\ reqs[s].pc = "done" /\ reqs[s].raced
    /\ Len(reqs[s].body) > 2

\* C9: every stored IngredientAmount row references a stored recipe and a
\* stored ingredient; deleting a recipe deletes its rows and no row of another
\* recipe.
C9_Cascade ==
  [][ /\ \A k \in DOMAIN ingredientAmounts' :
           ingredientAmounts'[k] > 0 =>
             k[1] \in recipes' /\ k[2] \in DOMAIN ingredients'
      /\ (last'.op = "delete" /\ last'.model = "Recipe") =>
           \A k \in DOMAIN ingredientAmounts :
             k[1] # last'.recipe_id => ingredientAmounts'[k] = ingredientAmounts[k] ]_vars

\* C9 witness: a recipe that had rows has just been deleted and the rows of
\* another recipe are still stored.
C9_Witness ==
  /\ last.op = "delete" /\ last.model = "Recipe"
  /\ last.status = HTTP_204_NO_CONTENT
  /\ Count(ingredientAmounts) > 0

\* C10: an add or remove request for a favorite or a shopping-list entry
\* changes at most the row of its own (user, recipe) pair in its own table; it
\* changes no row of the other kind and no Follow row, and a favorite request
\* changes no user's shopping report.
C10_Isolation ==
  [][ (last'.op \in {"post", "delete"} /\ last'.model \in Models) =>
        /\ follows' = follows
        /\ last'.model = Favorite =>
             /\ purchases' = purchases
             /\ Except(favorites', <<last'.user, last'.recipe_id>>)
                  = Except(favorites, <<last'.user, last'.recipe_id>>)
             /\ \A u \in Users :
                  \/ Query(purchases', ingredientAmounts', ingredients', u)
                       = Query(purchases, ingredientAmounts, ingredients, u)
                  \/ Reports(purchases', ingredientAmounts', ingredients', u)
                       = Reports(purchases, ingredientAmounts, ingredients, u)
        /\ last'.model = ShoppingList =>
             /\ favorites' = favorites
             /\ Except(purchases', <<last'.user, last'.recipe_id>>)
                  = Except(purchases, <<last'.user, last'.recipe_id>>) ]_vars

\* C10 witness: a favorite has just been added while a shopping-list row is
\* stored.
C10_Witness ==
  /\ last.op = "post" /\ last.model = Favorite
  /\ last.status = HTTP_201_CREATED
  /\ Count(purchases) > 0

====
